---- MODULE Spec2Model ----
(***************************************************************************)
(* Model of rest_server.mjs: the Express handlers GET /codes,              *)
(* GET /incidents and DELETE /remove-incident, the promise wrappers        *)
(* dbSelect / dbRun around the sqlite3 handle, and the Incidents table.    *)
(*                                                                         *)
(* A JavaScript string is a sequence of one-character strings.  A          *)
(* JavaScript number is a record [k, m, e]: k = "num" is the value         *)
(* m / 10^e (m not divisible by 10 when e > 0), k = "inf" is m * Infinity  *)
(* and k = "nan" is NaN.  A query-string field is a record [kind, s] with  *)
(* kind "undefined" (field not in the URL), "string" (s is its text) or    *)
(* "array" (the field was repeated in the URL, Express hands an array).    *)
(***************************************************************************)
EXTENDS Integers, Sequences, FiniteSets, TLC

VARIABLES req, store

vars == <<req, store>>

(***************************************************************************)
(* Bounds                                                                  *)
(***************************************************************************)
\* number of requests the server is given in one run
MaxReq == 2

Req == 1..MaxReq

(***************************************************************************)
(* JavaScript strings and numbers                                          *)
(***************************************************************************)
Digits == {"0", "1", "2", "3", "4", "5", "6", "7", "8", "9"}

DigitVal(c) ==
    CASE c = "0" -> 0 [] c = "1" -> 1 [] c = "2" -> 2 [] c = "3" -> 3
      [] c = "4" -> 4 [] c = "5" -> 5 [] c = "6" -> 6 [] c = "7" -> 7
      [] c = "8" -> 8 [] c = "9" -> 9

NaN == [k |-> "nan", m |-> 0, e |-> 0]
Num(n) == [k |-> "num", m |-> n, e |-> 0]
Infinity(sign) == [k |-> "inf", m |-> sign, e |-> 0]

IsNaN(x) == x.k = "nan"

\* x <= 0 on JavaScript numbers (false for NaN)
LeqZero(x) == x.k # "nan" /\ x.m <= 0

\* F(x), with x evaluated once before F is applied to it
Strict(F(_), x) == CHOOSE y \in {F(v) : v \in {x}} : TRUE

AllDigits(s) == \A i \in 1..Len(s) : s[i] \in Digits

\* the number a string of decimal digits denotes
DigitsValue(str) ==
    LET Of(s) ==
            LET value[i \in 0..Len(s)] ==
                    IF i = 0 THEN 0 ELSE 10 * value[i - 1] + DigitVal(s[i])
            IN  value[Len(s)]
    IN  Strict(Of, str)

\* String.prototype.trim, on the white space the inputs contain
Trim(str) ==
    LET Of(s) ==
            LET inked == {i \in 1..Len(s) : s[i] # " "}
            IN  IF inked = {} THEN <<>>
                ELSE SubSeq(s, CHOOSE i \in inked : \A j \in inked : i <= j,
                               CHOOSE i \in inked : \A j \in inked : j <= i)
    IN  Strict(Of, str)

\* index of the first occurrence of c in s, 0 when there is none
IndexOf(str, c) ==
    LET Of(s) ==
            IF \E i \in 1..Len(s) : s[i] = c
            THEN CHOOSE i \in 1..Len(s) : s[i] = c /\ \A j \in 1..(i - 1) : s[j] # c
            ELSE 0
    IN  Strict(Of, str)

\* drop the trailing zeros of a fraction: m / 10^e in lowest decimal form
RECURSIVE Normalise(_, _)
Normalise(m, e) ==
    IF e > 0 /\ m % 10 = 0 THEN Normalise(m \div 10, e - 1)
    ELSE [k |-> "num", m |-> m, e |-> e]

InfinityText == <<"I", "n", "f", "i", "n", "i", "t", "y">>

\* an unsigned StrDecimalLiteral without exponent: digits, digits.digits,
\* digits. or .digits, or the word Infinity; anything else is NaN
UnsignedToNumber(str) ==
    LET Of(s) ==
            IF s = InfinityText THEN Infinity(1)
            ELSE LET dot == IndexOf(s, ".")
                     ip  == IF dot = 0 THEN s ELSE SubSeq(s, 1, dot - 1)
                     fp  == IF dot = 0 THEN <<>> ELSE SubSeq(s, dot + 1, Len(s))
                 IN  IF AllDigits(ip) /\ AllDigits(fp) /\ Len(ip) + Len(fp) > 0
                     THEN Normalise(DigitsValue(ip \o fp), Len(fp))
                     ELSE NaN
    IN  Strict(Of, str)

Negate(x) == [x EXCEPT !.m = 0 - x.m]

\* Number(s) for a string s: white space is stripped, the empty string is 0,
\* an optional sign precedes the decimal literal
StringToNumber(s) ==
    LET Of(t) ==
            IF t = <<>> THEN Num(0)
            ELSE IF Head(t) = "-" THEN Negate(UnsignedToNumber(Tail(t)))
            ELSE IF Head(t) = "+" THEN UnsignedToNumber(Tail(t))
            ELSE UnsignedToNumber(t)
    IN  Strict(Of, Trim(s))

Commas(s) == {i \in 1..Len(s) : s[i] = ","}

\* the position of the k-th comma of s; 0 for k = 0 and Len(s) + 1 past the last
CommaAt(s, k) ==
    IF k = 0 THEN 0
    ELSE IF k > Cardinality(Commas(s)) THEN Len(s) + 1
    ELSE CHOOSE i \in Commas(s) : Cardinality({j \in Commas(s) : j < i}) = k - 1

\* String.prototype.split(','): the pieces between the commas, always at
\* least one piece
Split(str) ==
    LET Of(s) ==
            [k \in 1..(Cardinality(Commas(s)) + 1) |->
                SubSeq(s, CommaAt(s, k - 1) + 1, CommaAt(s, k) - 1)]
    IN  Strict(Of, str)

NotNaN(x) == ~IsNaN(x)

FilterNotNaN(ns) == SelectSeq(ns, NotNaN)

(***************************************************************************)
(* Request fields and bound values                                         *)
(***************************************************************************)
Undefined == [kind |-> "undefined", s |-> <<>>]
Str(s) == [kind |-> "string", s |-> s]
Array == [kind |-> "array", s |-> <<>>]

\* JavaScript truthiness of a field: undefined and "" are falsy, every other
\* string and every array is truthy
Truthy(f) == f.kind = "array" \/ (f.kind = "string" /\ f.s # <<>>)

\* a value bound to a placeholder
StrVal(s) == [t |-> "string", s |-> s, n |-> Num(0)]
NumVal(x) == [t |-> "number", s |-> <<>>, n |-> x]

MapNumVal(nums) ==
    LET Of(ns) == [i \in 1..Len(ns) |-> NumVal(ns[i])]
    IN  Strict(Of, nums)

(***************************************************************************)
(* isValidDateString                                                       *)
(***************************************************************************)
\* /^\d{4}-\d{2}-\d{2}$/
MatchesDateShape(s) ==
    /\ Len(s) = 10
    /\ \A i \in {1, 2, 3, 4, 6, 7, 9, 10} : s[i] \in Digits
    /\ s[5] = "-"
    /\ s[8] = "-"

\* the largest day number new Date("YYYY-MM-DD") accepts in any month
MaxDay == 31
MaxMonth == 12

\* !isNaN(new Date(s).getTime()) for a string of the date shape: the month
\* and the day are range-checked, the day is not checked against the month
DateParses(s) ==
    LET month == DigitsValue(SubSeq(s, 6, 7))
        day   == DigitsValue(SubSeq(s, 9, 10))
    IN  month \in 1..MaxMonth /\ day \in 1..MaxDay

\* isValidDateString without the new Date(s) check
isValidDateString_ShapeOnly(s) == MatchesDateShape(s)

isValidDateString(s) ==
    IF ~MatchesDateShape(s) THEN FALSE ELSE DateParses(s)

(***************************************************************************)
(* GET /incidents: the query builder                                       *)
(***************************************************************************)
DefaultLimit == 1000

\* limit = limit ? Number(limit) : 1000; NaN or <= 0 becomes 1000
LimitOf(limit) ==
    LET l == IF Truthy(limit) THEN StringToNumber(limit.s) ELSE Num(DefaultLimit)
    IN  IF IsNaN(l) \/ LeqZero(l) THEN Num(DefaultLimit) ELSE l

MapNumberTrim(tokens) ==
    LET Of(toks) == [i \in 1..Len(toks) |-> StringToNumber(Trim(toks[i]))]
    IN  Strict(Of, tokens)

\* x.split(',').map(s=>Number(s.trim())).filter(n=>!Number.isNaN(n))
ParseList(s) == FilterNotNaN(MapNumberTrim(Split(s)))

\* xs.map(()=>'?').join(',')
Placeholders(n) ==
    [i \in 1..(IF n = 0 THEN 0 ELSE 2 * n - 1) |-> IF i % 2 = 1 THEN "?" ELSE ","]

\* col + ' IN (' + p + ')'
InClause(head, n) == <<head>> \o Placeholders(n) \o <<")">>

StartClause == <<"date(date_time) >= date(", "?", ")">>
EndClause == <<"date(date_time) <= date(", "?", ")">>
CodeHead == "code IN ("
GridHead == "police_grid IN ("
NeighborhoodHead == "neighborhood_number IN ("

\* clauses.join(' AND ')
JoinAnd(clauses) ==
    LET Of(cs) ==
            LET joined[i \in 0..Len(cs)] ==
                    IF i = 0 THEN <<>>
                    ELSE IF i = 1 THEN cs[1]
                    ELSE joined[i - 1] \o <<" AND ">> \o cs[i]
            IN  joined[Len(cs)]
    IN  Strict(Of, clauses)

\* the clause a list field pushes, if any
ListClauses(f, head) ==
    IF Truthy(f) /\ ParseList(f.s) # <<>>
    THEN <<InClause(head, Len(ParseList(f.s)))>>
    ELSE <<>>

\* the parameters a list field pushes, if any
ListParams(f) ==
    IF Truthy(f) /\ ParseList(f.s) # <<>> THEN MapNumVal(ParseList(f.s)) ELSE <<>>

\* the clauses array after the five if-blocks
BuildClauses(q) ==
    (IF Truthy(q.start_date) THEN <<StartClause>> ELSE <<>>)
    \o (IF Truthy(q.end_date) THEN <<EndClause>> ELSE <<>>)
    \o ListClauses(q.code, CodeHead)
    \o ListClauses(q.grid, GridHead)
    \o ListClauses(q.neighborhood, NeighborhoodHead)

\* BuildParams with the limit pushed before the filters
BuildParams_LimitFirst(q) ==
    <<NumVal(LimitOf(q.limit))>>
    \o (IF Truthy(q.start_date) THEN <<StrVal(q.start_date.s)>> ELSE <<>>)
    \o (IF Truthy(q.end_date) THEN <<StrVal(q.end_date.s)>> ELSE <<>>)
    \o ListParams(q.code)
    \o ListParams(q.grid)
    \o ListParams(q.neighborhood)

\* the params array after the five if-blocks and params.push(limit)
BuildParams(q) ==
    (IF Truthy(q.start_date) THEN <<StrVal(q.start_date.s)>> ELSE <<>>)
    \o (IF Truthy(q.end_date) THEN <<StrVal(q.end_date.s)>> ELSE <<>>)
    \o ListParams(q.code)
    \o ListParams(q.grid)
    \o ListParams(q.neighborhood)
    \o <<NumVal(LimitOf(q.limit))>>

SelectIncidents ==
    "SELECT case_number, date(date_time) as date, time(date_time) as time, code, incident, police_grid, neighborhood_number, block FROM Incidents"

BuildQuery(clauses) ==
    <<SelectIncidents>>
    \o (IF Len(clauses) > 0 THEN <<" WHERE ">> \o JoinAnd(clauses) ELSE <<>>)
    \o <<" ORDER BY date_time DESC">>
    \o <<" LIMIT ", "?">>

(***************************************************************************)
(* The store and the requests                                              *)
(***************************************************************************)
\* the Incidents table: two rows share case number A
InitialStore ==
    { [id |-> 1, case_number |-> <<"A">>],
      [id |-> 2, case_number |-> <<"A">>],
      [id |-> 3, case_number |-> <<"B">>] }

\* the errors sqlite3 hands to a callback
DbErrors == {"SQLITE_BUSY: database is locked", "SQLITE_ERROR: datatype mismatch"}

NoOp == [stmt |-> "none", state |-> "none", arg |-> <<>>, rows |-> {}, changes |-> 0, err |-> ""]

\* db.all / db.run called with a statement; arg is the case number bound
\* to the statements of DELETE /remove-incident
Queued(stmt, arg) == [NoOp EXCEPT !.stmt = stmt, !.state = "queued", !.arg = arg]

NoQuery ==
    [start_date |-> Undefined, end_date |-> Undefined, code |-> Undefined,
     grid |-> Undefined, neighborhood |-> Undefined, limit |-> Undefined]

Idle ==
    [route |-> "none", pc |-> "idle", query |-> NoQuery, case_number |-> Undefined,
     sql |-> <<>>, params |-> <<>>, op |-> NoOp, sent |-> <<>>, log |-> <<>>]

Received(route, query, case_number) ==
    [Idle EXCEPT !.route = route, !.pc = "received", !.query = query,
                 !.case_number = case_number]

\* res.status(status).type(type).send(body): the response leaves, the
\* handler has nothing left to do
Respond(rq, status, type, body) ==
    [rq EXCEPT !.pc = "done",
               !.sent = Append(@, [status |-> status, type |-> type, body |-> body]),
               !.log = Append(@, "sent")]

\* dbSelect / dbRun: the statement is handed to sqlite3 and the handler
\* waits for the promise
Issue(rq, stmt, arg, sql, params) ==
    [rq EXCEPT !.pc = "waiting", !.op = Queued(stmt, arg), !.sql = sql,
               !.params = params, !.log = Append(@, "issue " \o stmt)]

(***************************************************************************)
(* GET /codes                                                              *)
(***************************************************************************)
MapNumber(tokens) ==
    LET Of(toks) == [i \in 1..Len(toks) |-> StringToNumber(toks[i])]
    IN  Strict(Of, tokens)

\* req.query.code.split(',').map(Number): NaN is kept
CodesOf(code) == IF Truthy(code) THEN MapNumber(Split(code.s)) ELSE <<>>

CodesQuery(code) ==
    <<"SELECT code, incident_type FROM Codes">>
    \o (IF Truthy(code)
        THEN <<" WHERE code IN (">> \o Placeholders(Len(CodesOf(code))) \o <<")">>
        ELSE <<>>)
    \o <<" ORDER BY code ASC">>

CodesHandle(r) ==
    /\ req[r].route = "codes" /\ req[r].pc = "received"
    /\ LET code == req[r].query.code
       IN  req' = [req EXCEPT ![r] =
                     Issue(@, "selectCodes", <<>>, CodesQuery(code),
                           MapNumVal(CodesOf(code)))]
    /\ UNCHANGED store

CodesThen(r) ==
    /\ req[r].route = "codes" /\ req[r].pc = "waiting" /\ req[r].op.state = "ok"
    /\ req' = [req EXCEPT ![r] = Respond(@, 200, "json", "rows")]
    /\ UNCHANGED store

CodesCatch(r) ==
    /\ req[r].route = "codes" /\ req[r].pc = "waiting" /\ req[r].op.state = "err"
    /\ req' = [req EXCEPT ![r] = Respond(@, 500, "txt", "database error")]
    /\ UNCHANGED store

(***************************************************************************)
(* GET /incidents                                                          *)
(***************************************************************************)
\* code.split on an array: TypeError, caught by the handler's catch
ThrowsTypeError(q) ==
    \/ q.code.kind = "array"
    \/ q.grid.kind = "array"
    \/ q.neighborhood.kind = "array"

\* the synchronous part of the handler, up to the first response or to
\* the await of dbSelect
IncidentsOutcome(rq) ==
    LET q == rq.query
    IN  IF Truthy(q.start_date) /\ ~isValidDateString(q.start_date.s)
        THEN Respond(rq, 400, "html", "invalid start_date")
        ELSE IF Truthy(q.end_date) /\ ~isValidDateString(q.end_date.s)
        THEN Respond(rq, 400, "html", "invalid end_date")
        ELSE IF ThrowsTypeError(q)
        THEN Respond(rq, 500, "txt", "error")
        ELSE Issue(rq, "selectIncidents", <<>>, BuildQuery(BuildClauses(q)),
                   BuildParams(q))

IncidentsHandle(r) ==
    /\ req[r].route = "incidents" /\ req[r].pc = "received"
    /\ req' = [req EXCEPT ![r] = IncidentsOutcome(req[r])]
    /\ UNCHANGED store

IncidentsThen(r) ==
    /\ req[r].route = "incidents" /\ req[r].pc = "waiting" /\ req[r].op.state = "ok"
    /\ req' = [req EXCEPT ![r] = Respond(@, 200, "json", "rows")]
    /\ UNCHANGED store

IncidentsCatch(r) ==
    /\ req[r].route = "incidents" /\ req[r].pc = "waiting" /\ req[r].op.state = "err"
    /\ req' = [req EXCEPT ![r] = Respond(@, 500, "txt", "error")]
    /\ UNCHANGED store

(***************************************************************************)
(* DELETE /remove-incident                                                 *)
(***************************************************************************)
CheckQuery == <<"SELECT case_number FROM Incidents WHERE case_number = ", "?">>
DeleteQuery == <<"DELETE FROM Incidents WHERE case_number = ", "?">>

RemoveHandle(r) ==
    /\ req[r].route = "remove" /\ req[r].pc = "received"
    /\ LET caseNumber == req[r].case_number
       IN  req' = [req EXCEPT ![r] =
             IF ~Truthy(caseNumber)
             THEN Respond(@, 400, "txt", "error: no case number")
             ELSE Issue(@, "checkCase", caseNumber.s, CheckQuery,
                        <<StrVal(caseNumber.s)>>)]
    /\ UNCHANGED store

\* RemoveCheckThen without the return in front of the not-found response:
\* the handler goes on to the DELETE
RemoveCheckThen_NoReturn(r) ==
    /\ req[r].route = "remove" /\ req[r].pc = "waiting"
    /\ req[r].op.stmt = "checkCase" /\ req[r].op.state = "ok"
    /\ req' = [req EXCEPT ![r] =
          Issue(IF Cardinality(req[r].op.rows) = 0
                THEN Respond(@, 500, "txt", "error: case number does not exist")
                ELSE @,
                "deleteCase", req[r].case_number.s, DeleteQuery,
                <<StrVal(req[r].case_number.s)>>)]
    /\ UNCHANGED store

\* the first .then: rows of the existence check
RemoveCheckThen(r) ==
    /\ req[r].route = "remove" /\ req[r].pc = "waiting"
    /\ req[r].op.stmt = "checkCase" /\ req[r].op.state = "ok"
    /\ req' = [req EXCEPT ![r] =
          IF Cardinality(req[r].op.rows) = 0
          THEN Respond(@, 500, "txt", "error: case number does not exist")
          ELSE Issue(@, "deleteCase", req[r].case_number.s, DeleteQuery,
                     <<StrVal(req[r].case_number.s)>>)]
    /\ UNCHANGED store

\* RemoveDeleteThen reporting not-found when the DELETE changed no row
RemoveDeleteThen_ChecksChanges(r) ==
    /\ req[r].route = "remove" /\ req[r].pc = "waiting"
    /\ req[r].op.stmt = "deleteCase" /\ req[r].op.state = "ok"
    /\ req' = [req EXCEPT ![r] =
          IF req[r].op.changes = 0
          THEN Respond(@, 500, "txt", "error: case number does not exist")
          ELSE Respond(@, 200, "txt", "success")]
    /\ UNCHANGED store

\* the inner .then: the delete has completed
RemoveDeleteThen(r) ==
    /\ req[r].route = "remove" /\ req[r].pc = "waiting"
    /\ req[r].op.stmt = "deleteCase" /\ req[r].op.state = "ok"
    /\ req' = [req EXCEPT ![r] = Respond(@, 200, "txt", "success")]
    /\ UNCHANGED store

\* RemoveCatch sending the text of the error
RemoveCatch_LeaksError(r) ==
    /\ req[r].route = "remove" /\ req[r].pc = "waiting" /\ req[r].op.state = "err"
    /\ req' = [req EXCEPT ![r] = Respond(@, 500, "txt", req[r].op.err)]
    /\ UNCHANGED store

\* .catch: the check or the delete was rejected
RemoveCatch(r) ==
    /\ req[r].route = "remove" /\ req[r].pc = "waiting" /\ req[r].op.state = "err"
    /\ req' = [req EXCEPT ![r] = Respond(@, 500, "txt", "error")]
    /\ UNCHANGED store

(***************************************************************************)
(* sqlite3: a queued statement runs, its callback gets rows or an error    *)
(***************************************************************************)
Matching(cn) == {row \in store : row.case_number = cn}

\* DbSucceed with a DELETE that removes nothing
DbSucceed_NoDelete(r) ==
    /\ req[r].pc = "waiting" /\ req[r].op.state = "queued"
    /\ LET op == req[r].op
       IN  req' = [req EXCEPT ![r].op =
                   [@ EXCEPT !.state = "ok",
                             !.rows = IF op.stmt = "checkCase" THEN Matching(op.arg) ELSE {}],
                              ![r].log = Append(@, "ok " \o op.stmt)]
    /\ UNCHANGED store

\* callback(null, rows) of db.all, callback(null) of db.run.  The rows of
\* the two list queries are forwarded to the client unread and are not
\* modelled.
DbSucceed(r) ==
    /\ req[r].pc = "waiting" /\ req[r].op.state = "queued"
    /\ LET op == req[r].op
       IN  /\ req' = [req EXCEPT ![r].op =
                   [@ EXCEPT !.state = "ok",
                             !.rows = IF op.stmt = "checkCase" THEN Matching(op.arg) ELSE {},
                             !.changes = IF op.stmt = "deleteCase"
                                         THEN Cardinality(Matching(op.arg)) ELSE 0],
                              ![r].log = Append(@, "ok " \o op.stmt)]
           /\ store' = IF op.stmt = "deleteCase" THEN store \ Matching(op.arg) ELSE store

\* callback(err): the statement changed nothing
DbFail(r) ==
    /\ req[r].pc = "waiting" /\ req[r].op.state = "queued"
    /\ \E e \in DbErrors :
          req' = [req EXCEPT ![r].op = [@ EXCEPT !.state = "err", !.err = e],
                             ![r].log = Append(@, "err " \o req[r].op.stmt)]
    /\ UNCHANGED store

(***************************************************************************)
(* Requests the clients send                                               *)
(***************************************************************************)
\* start_date: absent, "", 2024-01-01, 2024-13-01, 2024-1-01
StartDates ==
    { Undefined,
      Str(<<>>),
      Str(<<"2", "0", "2", "4", "-", "0", "1", "-", "0", "1">>),
      Str(<<"2", "0", "2", "4", "-", "1", "3", "-", "0", "1">>),
      Str(<<"2", "0", "2", "4", "-", "1", "-", "0", "1">>) }

\* end_date: absent, "", 2024-01-31, 2024-01-32, 2023-02-30, 01/31/2024
EndDates ==
    { Undefined,
      Str(<<>>),
      Str(<<"2", "0", "2", "4", "-", "0", "1", "-", "3", "1">>),
      Str(<<"2", "0", "2", "4", "-", "0", "1", "-", "3", "2">>),
      Str(<<"2", "0", "2", "3", "-", "0", "2", "-", "3", "0">>),
      Str(<<"0", "1", "/", "3", "1", "/", "2", "0", "2", "4">>) }

\* code: absent, "", "10,abc,20", "abc", "10,,20", " ", repeated
CodeLists ==
    { Undefined,
      Str(<<>>),
      Str(<<"1", "0", ",", "a", "b", "c", ",", "2", "0">>),
      Str(<<"a", "b", "c">>),
      Str(<<"1", "0", ",", ",", "2", "0">>),
      Str(<<" ">>),
      Array }

\* grid: absent, "abc", " 7 ,x", "1.5", ","
GridLists ==
    { Undefined,
      Str(<<"a", "b", "c">>),
      Str(<<" ", "7", " ", ",", "x">>),
      Str(<<"1", ".", "5">>),
      Str(<<",">>) }

\* neighborhood: absent, "", "-3", "x,y", "Infinity,2"
NeighborhoodLists ==
    { Undefined,
      Str(<<>>),
      Str(<<"-", "3">>),
      Str(<<"x", ",", "y">>),
      Str(<<"I", "n", "f", "i", "n", "i", "t", "y", ",", "2">>) }

\* limit: absent, "", "5", "0", "-2", "abc", "1.5", "Infinity", " 12 "
Limits ==
    { Undefined,
      Str(<<>>),
      Str(<<"5">>),
      Str(<<"0">>),
      Str(<<"-", "2">>),
      Str(<<"a", "b", "c">>),
      Str(<<"1", ".", "5">>),
      Str(<<"I", "n", "f", "i", "n", "i", "t", "y">>),
      Str(<<" ", "1", "2", " ">>) }

IncidentQueries ==
    [start_date : StartDates, end_date : EndDates, code : CodeLists,
     grid : GridLists, neighborhood : NeighborhoodLists, limit : Limits]

\* the GET /incidents queries of the whole-server specification, one per
\* path of the handler: invalid start_date, invalid end_date, a query that
\* reaches the store (code=10,abc,20&limit=5), a repeated grid field
ServerQueries ==
    { [NoQuery EXCEPT !.start_date = Str(<<"2", "0", "2", "4", "-", "1", "3", "-", "0", "1">>)],
      [NoQuery EXCEPT !.start_date = Str(<<"2", "0", "2", "4", "-", "0", "1", "-", "0", "1">>),
                      !.end_date = Str(<<"0", "1", "/", "3", "1", "/", "2", "0", "2", "4">>)],
      [NoQuery EXCEPT !.code = Str(<<"1", "0", ",", "a", "b", "c", ",", "2", "0">>), !.limit = Str(<<"5">>)],
      [NoQuery EXCEPT !.grid = Array] }

\* the GET /codes query of the whole-server specification: code=1,x
CodesQueries ==
    { [NoQuery EXCEPT !.code = Str(<<"1", ",", "x">>)] }

\* case_number of the JSON body: absent, A (two rows), C (no row)
CaseNumbers ==
    { Undefined, Str(<<"A">>), Str(<<"C">>) }

ReceiveCodes(r) ==
    /\ req[r].pc = "idle"
    /\ \E q \in CodesQueries : req' = [req EXCEPT ![r] = Received("codes", q, Undefined)]
    /\ UNCHANGED store

ReceiveIncidents(r) ==
    /\ req[r].pc = "idle"
    /\ \E q \in ServerQueries :
          req' = [req EXCEPT ![r] = Received("incidents", q, Undefined)]
    /\ UNCHANGED store

ReceiveRemove(r) ==
    /\ req[r].pc = "idle"
    /\ \E cn \in CaseNumbers : req' = [req EXCEPT ![r] = Received("remove", NoQuery, cn)]
    /\ UNCHANGED store

(***************************************************************************)
(* Specifications                                                          *)
(***************************************************************************)
\* one step of the handling of request r
Handling(r) ==
    \/ CodesHandle(r) \/ CodesThen(r) \/ CodesCatch(r)
    \/ IncidentsHandle(r) \/ IncidentsThen(r) \/ IncidentsCatch(r)
    \/ RemoveHandle(r) \/ RemoveCheckThen(r) \/ RemoveDeleteThen(r) \/ RemoveCatch(r)
    \/ DbSucceed(r) \/ DbFail(r)

Init ==
    /\ req = [r \in Req |-> Idle]
    /\ store = InitialStore

Next ==
    \E r \in Req :
        \/ ReceiveCodes(r)
        \/ ReceiveIncidents(r)
        \/ ReceiveRemove(r)
        \/ Handling(r)

\* the server under any interleaving of its requests
Spec == Init /\ [][Next]_vars

\* the event loop runs every ready callback and sqlite3 finishes every
\* statement it was given
FairSpec == Spec /\ \A r \in Req : WF_vars(Handling(r))

\* the query builder alone: one GET /incidents request, any query
InitIncidents ==
    /\ \E q \in IncidentQueries :
          req = [r \in Req |-> IF r = 1 THEN Received("incidents", q, Undefined) ELSE Idle]
    /\ store = InitialStore

NextIncidents ==
    \E r \in Req :
        \/ IncidentsHandle(r)
        \/ IncidentsThen(r)
        \/ IncidentsCatch(r)
        \/ DbSucceed(r)
        \/ DbFail(r)

SpecIncidents == InitIncidents /\ [][NextIncidents]_vars

(***************************************************************************)
(* Vocabulary of the properties                                            *)
(***************************************************************************)
\* request r is a GET /incidents whose query was built and handed to the store
Built(r) == req[r].route = "incidents" /\ req[r].sql # <<>>

\* request r is a GET /incidents the handler has run for
Handled(r) == req[r].route = "incidents" /\ req[r].pc # "received"

HasToken(sql, tok) == \E i \in 1..Len(sql) : sql[i] = tok

CountToken(sql, tok) == Cardinality({i \in 1..Len(sql) : sql[i] = tok})

\* the number of placeholders of the clause that starts with head: the "?"
\* between head and the first ")" after it
ClausePlaceholders(sql, head) ==
    LET h == IndexOf(sql, head)
        close == CHOOSE j \in (h + 1)..Len(sql) :
                     sql[j] = ")" /\ \A k \in (h + 1)..(j - 1) : sql[k] # ")"
    IN  Cardinality({k \in (h + 1)..(close - 1) : sql[k] = "?"})

\* a token that is the decimal notation of an integer: optional sign, then
\* one or more digits, white space around it ignored
IsIntegerToken(tok) ==
    LET t == Trim(tok)
        u == IF t # <<>> /\ Head(t) \in {"-", "+"} THEN Tail(t) ELSE t
    IN  u # <<>> /\ AllDigits(u)

IntegerOf(tok) ==
    LET t == Trim(tok)
    IN  IF Head(t) = "-" THEN Num(0 - DigitsValue(Tail(t)))
        ELSE IF Head(t) = "+" THEN Num(DigitsValue(Tail(t)))
        ELSE Num(DigitsValue(t))

RECURSIVE IntegersOf(_)
IntegersOf(toks) ==
    IF toks = <<>> THEN <<>>
    ELSE IF IsIntegerToken(Head(toks))
    THEN <<NumVal(IntegerOf(Head(toks)))>> \o IntegersOf(Tail(toks))
    ELSE IntegersOf(Tail(toks))

\* the integers a list field names, in input order
IntegerTokens(f) == IF f.kind = "string" THEN IntegersOf(Split(f.s)) ELSE <<>>

\* the field is in the URL
Supplied(f) == f.kind # "undefined"

\* the field is in the URL with a value that is not the empty string
SuppliedNonEmpty(f) == f.kind = "string" /\ f.s # <<>>

FailsDateChecks(s) == ~MatchesDateShape(s) \/ ~DateParses(s)

Issues(r) == {i \in 1..Len(req[r].log) :
                 req[r].log[i] \in {"issue selectCodes", "issue selectIncidents",
                                    "issue checkCase", "issue deleteCase"}}

(***************************************************************************)
(* C1 .. C5: the query builder (SpecIncidents)                             *)
(***************************************************************************)
DateContributes(f) == SuppliedNonEmpty(f)
ListContributes(f) == IntegerTokens(f) # <<>>

\* C1: a built query has a WHERE condition for a field only if the field was
\* supplied and, for code, grid and neighborhood, at least one of its tokens
\* is an integer; a field that is absent, empty or made only of tokens that
\* are not integers (empty and blank tokens included) contributes no clause
\* and no parameter, and with no contributing field there is no WHERE.
C1_ClauseOnlyForContributingField ==
    \A r \in Req : Built(r) =>
        LET q == req[r].query
            sql == req[r].sql
        IN  /\ HasToken(sql, StartClause[1]) => DateContributes(q.start_date)
            /\ HasToken(sql, EndClause[1]) => DateContributes(q.end_date)
            /\ HasToken(sql, CodeHead) => ListContributes(q.code)
            /\ HasToken(sql, GridHead) => ListContributes(q.grid)
            /\ HasToken(sql, NeighborhoodHead) => ListContributes(q.neighborhood)
            /\ (~DateContributes(q.start_date) /\ ~DateContributes(q.end_date)
                /\ ~ListContributes(q.code) /\ ~ListContributes(q.grid)
                /\ ~ListContributes(q.neighborhood))
               => (~HasToken(sql, " WHERE ") /\ Len(req[r].params) = 1)

ClauseHeads ==
    <<StartClause[1], EndClause[1], CodeHead, GridHead, NeighborhoodHead>>

\* the values the code binds for the clause of each field, by field number
ClauseValues(q, i) ==
    CASE i = 1 -> <<StrVal(q.start_date.s)>>
      [] i = 2 -> <<StrVal(q.end_date.s)>>
      [] i = 3 -> MapNumVal(ParseList(q.code.s))
      [] i = 4 -> MapNumVal(ParseList(q.grid.s))
      [] i = 5 -> MapNumVal(ParseList(q.neighborhood.s))

RECURSIVE PresentValues(_, _, _)
PresentValues(q, sql, i) ==
    IF i > 5 THEN <<>>
    ELSE (IF HasToken(sql, ClauseHeads[i]) THEN ClauseValues(q, i) ELSE <<>>)
         \o PresentValues(q, sql, i + 1)

\* C2: in a built query the clauses stand in the order start_date, end_date,
\* code, grid, neighborhood, then ORDER BY date_time DESC and LIMIT ?; the
\* parameters are the values of the present clauses in that order and then
\* the resolved limit; every clause has as many placeholders as values, so
\* the placeholders are as many as the parameters.
C2_ClauseAndParameterOrder ==
    \A r \in Req : Built(r) =>
        LET q == req[r].query
            sql == req[r].sql
            n == Len(sql)
        IN  /\ \A i, j \in 1..5 :
                  (i < j /\ HasToken(sql, ClauseHeads[i]) /\ HasToken(sql, ClauseHeads[j]))
                  => IndexOf(sql, ClauseHeads[i]) < IndexOf(sql, ClauseHeads[j])
            /\ \A i \in 1..5 : CountToken(sql, ClauseHeads[i]) <= 1
            /\ SubSeq(sql, n - 2, n) = <<" ORDER BY date_time DESC", " LIMIT ", "?">>
            /\ \A i \in 1..5 :
                  HasToken(sql, ClauseHeads[i]) =>
                     /\ IndexOf(sql, ClauseHeads[i]) < n - 2
                     /\ ClausePlaceholders(sql, ClauseHeads[i]) = Len(ClauseValues(q, i))
            /\ req[r].params = PresentValues(q, sql, 1) \o <<NumVal(LimitOf(q.limit))>>
            /\ CountToken(sql, "?") = Len(req[r].params)

\* a query with both dates and two list clauses was built
C2_Witness ==
    \E r \in Req :
        /\ Built(r)
        /\ HasToken(req[r].sql, StartClause[1])
        /\ HasToken(req[r].sql, EndClause[1])
        /\ HasToken(req[r].sql, CodeHead)
        /\ HasToken(req[r].sql, GridHead)
        /\ Len(req[r].params) = 6

\* C3: the limit bound to the query is a positive integer: 1000 when limit
\* is absent, not numeric, zero or negative, else the integer value of the
\* supplied string; never a fraction, never infinite.
C3_LimitIsPositiveInteger ==
    \A r \in Req : Built(r) =>
        LET l == req[r].params[Len(req[r].params)]
            f == req[r].query.limit
        IN  /\ l.t = "number"
            /\ l.n.k = "num" /\ l.n.e = 0 /\ l.n.m > 0
            /\ IF f.kind = "string" /\ IsIntegerToken(f.s) /\ IntegerOf(f.s).m > 0
               THEN l.n = IntegerOf(f.s)
               ELSE l.n = Num(DefaultLimit)

\* C4 as stated: a start_date or end_date that is supplied and fails the
\* shape check or the date-parse check ends the request with a 400 naming
\* the field (start_date first), and no store query is issued.
C4_Original_SuppliedInvalidDateIs400 ==
    \A r \in Req : Handled(r) =>
        LET q == req[r].query
            badStart == Supplied(q.start_date) /\ FailsDateChecks(q.start_date.s)
            badEnd == Supplied(q.end_date) /\ FailsDateChecks(q.end_date.s)
        IN  /\ badStart =>
                  req[r].sent = <<[status |-> 400, type |-> "html", body |-> "invalid start_date"]>>
            /\ (~badStart /\ badEnd) =>
                  req[r].sent = <<[status |-> 400, type |-> "html", body |-> "invalid end_date"]>>
            /\ (badStart \/ badEnd) => (Issues(r) = {} /\ req[r].pc = "done")

\* C4 amended: the same for a start_date or end_date supplied with a
\* non-empty value; an empty value is treated as an absent field.
C4_NonEmptyInvalidDateIs400 ==
    \A r \in Req : Handled(r) =>
        LET q == req[r].query
            badStart == SuppliedNonEmpty(q.start_date) /\ FailsDateChecks(q.start_date.s)
            badEnd == SuppliedNonEmpty(q.end_date) /\ FailsDateChecks(q.end_date.s)
        IN  /\ badStart =>
                  req[r].sent = <<[status |-> 400, type |-> "html", body |-> "invalid start_date"]>>
            /\ (~badStart /\ badEnd) =>
                  req[r].sent = <<[status |-> 400, type |-> "html", body |-> "invalid end_date"]>>
            /\ (badStart \/ badEnd) => (Issues(r) = {} /\ req[r].pc = "done")

\* a request with a well-shaped end_date that does not parse, a valid
\* start_date and a code list was refused
C4_Witness ==
    \E r \in Req :
        /\ Handled(r)
        /\ SuppliedNonEmpty(req[r].query.start_date)
        /\ ~FailsDateChecks(req[r].query.start_date.s)
        /\ SuppliedNonEmpty(req[r].query.end_date)
        /\ MatchesDateShape(req[r].query.end_date.s)
        /\ ~DateParses(req[r].query.end_date.s)
        /\ ListContributes(req[r].query.code)
        /\ req[r].sent # <<>>
        /\ req[r].sent[1].status = 400

\* the number of date parameters at the head of the parameter list
DateParams(r) ==
    (IF HasToken(req[r].sql, StartClause[1]) THEN 1 ELSE 0)
    + (IF HasToken(req[r].sql, EndClause[1]) THEN 1 ELSE 0)

\* C5: the values bound for code, grid and neighborhood are exactly the
\* tokens of the input that are integers, in input order, every other token
\* dropped; a token that is not an integer never causes a refusal.
C5_ListValuesAreTheIntegerTokens ==
    \A r \in Req : Handled(r) =>
        LET q == req[r].query
            datesFine ==
                /\ SuppliedNonEmpty(q.start_date) => ~FailsDateChecks(q.start_date.s)
                /\ SuppliedNonEmpty(q.end_date) => ~FailsDateChecks(q.end_date.s)
            strings == \A f \in {q.code, q.grid, q.neighborhood} : f.kind # "array"
        IN  (datesFine /\ strings) =>
               /\ Built(r)
               /\ SubSeq(req[r].params, DateParams(r) + 1, Len(req[r].params) - 1)
                    = IntegerTokens(q.code) \o IntegerTokens(q.grid)
                      \o IntegerTokens(q.neighborhood)

(***************************************************************************)
(* C6 .. C10: the requests against the store (Spec, FairSpec)              *)
(***************************************************************************)
Success == [status |-> 200, type |-> "txt", body |-> "success"]

\* the response of DELETE /remove-incident to a rejected store operation
GenericFailure == [status |-> 500, type |-> "txt", body |-> "error"]

\* the fixed text each route sends when a store operation was rejected
GenericText(route) == IF route = "codes" THEN "database error" ELSE "error"

\* the existence check of request r ran and found no row
CheckFoundNothing(r) ==
    /\ req[r].route = "remove"
    /\ req[r].op.stmt = "checkCase"
    /\ req[r].op.state = "ok"
    /\ req[r].op.rows = {}

\* C6: a delete whose case number matches no row at the existence check is
\* answered with a not-found (4xx) response that differs from the generic
\* store-failure response, and no DELETE is issued for it.
C6_NotFoundIsClientError ==
    \A r \in Req : (CheckFoundNothing(r) /\ req[r].pc = "done") =>
        /\ Len(req[r].sent) = 1
        /\ req[r].sent[1].status \in 400..499
        /\ req[r].sent[1] # GenericFailure
        /\ ~HasToken(req[r].log, "issue deleteCase")

\* the DELETE of request r is handed to sqlite3 in this step
IssuesDelete(r) == req[r].op.stmt # "deleteCase" /\ req'[r].op.stmt = "deleteCase"

\* the DELETE of request r runs in this step
DeleteRuns(r) ==
    /\ req[r].op.stmt = "deleteCase" /\ req[r].op.state = "queued"
    /\ req'[r].op.state = "ok"

\* request r sends 200 "success" in this step
SendsSuccess(r) ==
    /\ Len(req'[r].sent) = Len(req[r].sent) + 1
    /\ req'[r].sent[Len(req'[r].sent)] = Success

C7_Step ==
    \A r \in Req :
        LET cn == req[r].case_number.s
        IN  /\ IssuesDelete(r) =>
                  /\ req[r].op.stmt = "checkCase"
                  /\ req[r].op.state = "ok"
                  /\ req[r].op.rows # {}
            /\ DeleteRuns(r) =>
                  store' = {row \in store : row.case_number # cn}
            /\ SendsSuccess(r) =>
                  /\ req[r].op.stmt = "deleteCase"
                  /\ req[r].op.state = "ok"
            /\ (req'[r].route = "remove" /\ req'[r].pc = "done"
                /\ req'[r].op.stmt = "deleteCase" /\ req'[r].op.state = "ok") =>
                  req'[r].sent = <<Success>>
            /\ HasToken(req'[r].sent, Success) =>
                  {row \in store' : row.case_number = req'[r].case_number.s} = {}

\* C7: a delete of a present case number issues the DELETE only after the
\* existence check has completed with a row, the DELETE removes every row
\* with that case number and no other, 200 "success" is sent only after the
\* DELETE has completed, and once it is sent the store holds no row with
\* that case number.
C7_DeleteThenSuccess == [][C7_Step]_vars

\* a delete of case number A, which two rows carry, was answered "success"
C7_Witness ==
    \E r \in Req :
        /\ req[r].route = "remove"
        /\ req[r].case_number.s = <<"A">>
        /\ req[r].sent = <<Success>>
        /\ req[r].op.changes = 2
        /\ store = {[id |-> 3, case_number |-> <<"B">>]}

\* C8: the check and the delete are not one atomic step: two requests for
\* the same case number can both pass the existence check, and then each
\* whose DELETE completes is answered 200 "success", the one whose DELETE
\* affected no row included; it is never told not-found.
C8_BothDeletesSucceed ==
    \A r1, r2 \in Req :
        (/\ r1 # r2
         /\ req[r1].route = "remove" /\ req[r2].route = "remove"
         /\ req[r1].case_number = req[r2].case_number
         /\ req[r1].op.stmt = "deleteCase" /\ req[r2].op.stmt = "deleteCase"
         /\ req[r2].op.state = "ok" /\ req[r2].pc = "done")
        => req[r2].sent = <<Success>>

\* both requests for A were answered "success", one DELETE removed the rows
\* and the other removed nothing
C8_Witness ==
    \E r1, r2 \in Req :
        /\ r1 # r2
        /\ req[r1].route = "remove" /\ req[r2].route = "remove"
        /\ req[r1].case_number = req[r2].case_number
        /\ req[r1].sent = <<Success>> /\ req[r2].sent = <<Success>>
        /\ req[r1].op.changes > 0
        /\ req[r2].op.changes = 0

ErrEntries ==
    {"err selectCodes", "err selectIncidents", "err checkCase", "err deleteCase"}

\* C9: a rejected store operation ends its request with a 500 whose text
\* is fixed for the route and has nothing of the error in it; nothing is
\* issued after the rejection, no statement is issued twice, and a request
\* issues at most two store operations.
C9_StoreFailureIsGeneric500 ==
    \A r \in Req :
        LET log == req[r].log
        IN  /\ Cardinality(Issues(r)) <= 2
            /\ \A i, j \in Issues(r) : i # j => log[i] # log[j]
            /\ \A i \in 1..Len(log) :
                  log[i] \in ErrEntries => \A j \in (i + 1)..Len(log) : log[j] = "sent"
            /\ (req[r].op.state = "err" /\ req[r].pc = "done") =>
                  /\ req[r].sent = <<[status |-> 500, type |-> "txt",
                                      body |-> GenericText(req[r].route)]>>
                  /\ req[r].sent[1].body \notin DbErrors

\* a delete whose DELETE statement was rejected, after a successful check,
\* was answered
C9_Witness ==
    \E r \in Req :
        /\ req[r].route = "remove"
        /\ req[r].op.stmt = "deleteCase"
        /\ req[r].op.state = "err"
        /\ req[r].pc = "done"
        /\ Cardinality(Issues(r)) = 2

\* C10: every GET /incidents and DELETE /remove-incident request is answered
\* exactly once: never twice, and once received it is eventually answered,
\* given that every issued store operation completes or fails.
C10_AnsweredExactlyOnce ==
    /\ [](\A r \in Req : Len(req[r].sent) <= 1)
    /\ \A r \in Req :
          (req[r].route \in {"incidents", "remove"} /\ req[r].pc = "received")
          ~> (req[r].pc = "done" /\ Len(req[r].sent) = 1)

\* one request was refused with a 400 and a delete was told the case number
\* does not exist; each has exactly one response
C10_Witness ==
    \E r1, r2 \in Req :
        /\ req[r1].route = "incidents"
        /\ req[r1].pc = "done" /\ Len(req[r1].sent) = 1
        /\ req[r1].sent[1].status = 400
        /\ CheckFoundNothing(r2)
        /\ req[r2].pc = "done" /\ Len(req[r2].sent) = 1

====
